---------------------------- MODULE Spec2Model ----------------------------
(***************************************************************************)
(* Model of the pet_equations library (potential evapotranspiration).      *)
(*                                                                         *)
(*   checking.py                  input normalisation and size checks      *)
(*   methods/hargreaves.py        Hargreaves evaluator                     *)
(*   methods/penman_monteith_FAO.py   Penman-Monteith FAO-56 evaluator     *)
(*   methods_parameters/*.py      astronomical, psychrometric, radiation   *)
(*                                                                         *)
(* Python objects are records [kind, dtype, ndim, elems].  A number is a   *)
(* record [nan, h]: h counts halves (h = 3 is 1.5), so that a float can    *)
(* have a fractional part and int() has something to truncate.             *)
(***************************************************************************)
EXTENDS Integers, Sequences, FiniteSets, TLC

VARIABLES
    chk_param,   \* the object handed to the normalisation functions
    chk_float,   \* outcome of _check_param_float_type(chk_param)
    chk_int,     \* outcome of _check_param_int_type(chk_param)
    hpc,         \* position inside methods/hargreaves.calculate
    hargs,       \* its five arguments as the caller passed them
    hloc,        \* its local variables
    htrace,      \* the statements it has evaluated so far, in order
    hout,        \* how the call ended
    ppc,         \* position inside methods/penman_monteith_FAO.calculate
    pcall,       \* the keyword arguments the caller wrote
    pargs,       \* its parameters, once the call has bound them
    ploc,        \* its local variables
    ptrace,      \* the statements it has evaluated so far, in order
    pout,        \* how the call ended
    hmargs,      \* the arguments of a call of hamon.calculate
    hmloc,       \* its local variables
    hmout,       \* how importing hamon and calling calculate ended
    sfn,         \* the formula function that is called on its own
    sargs,       \* its arguments
    sout         \* how the call ended

vars == <<chk_param, chk_float, chk_int, hpc, hargs, hloc, htrace, hout,
          ppc, pcall, pargs, ploc, ptrace, pout, hmargs, hmloc, hmout,
          sfn, sargs, sout>>

chkVars == <<chk_param, chk_float, chk_int>>
hgVars == <<hpc, hargs, hloc, htrace, hout>>
pmVars == <<ppc, pcall, pargs, ploc, ptrace, pout>>
hmVars == <<hmargs, hmloc, hmout>>
shVars == <<sfn, sargs, sout>>

(***************************************************************************)
(* Bounds                                                                  *)
(***************************************************************************)
\* longest array or Series handed to a function
MaxLen == 3
\* most arguments of one Penman-Monteith call that are arrays, not scalars
MaxArrays == 2

(***************************************************************************)
(* Numbers                                                                 *)
(***************************************************************************)
Num(h) == [nan |-> FALSE, h |-> h]
NaN == [nan |-> TRUE, h |-> 0]

\* h halves is a whole number
IsWhole(v) == ~v.nan /\ v.h % 2 = 0

\* C cast / Python int(): rounds toward zero.  Result again in halves.
\* (variant: rounding down instead)
IntTruncFloor(h) == 2 * (h \div 2)
IntTrunc(h) == IF h >= 0 THEN 2 * (h \div 2) ELSE -(2 * ((-h) \div 2))

(***************************************************************************)
(* Python objects                                                          *)
(***************************************************************************)
Obj(kind, dtype, ndim, elems) ==
    [kind |-> kind, dtype |-> dtype, ndim |-> ndim, elems |-> elems]

NoneObj == Obj("NoneType", "none", 0, <<>>)
StrObj == Obj("str", "none", 0, <<>>)
PyInt(h) == Obj("int", "none", 0, <<Num(h)>>)
PyFloat(v) == Obj("float", "none", 0, <<v>>)
PyBool(h) == Obj("bool", "none", 0, <<Num(h)>>)
\* numpy scalars: np.float64 subclasses Python float, the others subclass
\* neither int nor float
NpFloat64(v) == Obj("np.float64", "float64", 0, <<v>>)
NpInt64(h) == Obj("np.int64", "int64", 0, <<Num(h)>>)
NpFloat32(v) == Obj("np.float32", "float32", 0, <<v>>)
PyList(elems) == Obj("list", "none", 1, elems)
NdArray(dtype, ndim, elems) == Obj("ndarray", dtype, ndim, elems)
Series(dtype, elems) == Obj("Series", dtype, 1, elems)

\* ndarray.size
Size(a) == Len(a.elems)

IsSized(p) == p.kind \in {"ndarray", "Series"}
IsPyScalar(p) == p.kind \in {"int", "float"}

\* isinstance(param, (int, float))
IsInstanceIntFloat(p) == p.kind \in {"int", "float", "bool", "np.float64"}

\* param.dtype in (float, int): numpy compares a dtype with a Python type by
\* converting the type, float -> float64 and int -> int64
DtypeInFloatInt(p) == p.dtype \in {"float64", "int64"}

\* np.array(scalar): a 0-d array, dtype from the Python type
ScalarDtype(p) ==
    CASE p.kind = "int" -> "int64"
      [] p.kind = "bool" -> "bool"
      [] OTHER -> "float64"

Raised(exc, at) == [status |-> exc, at |-> at, arr |-> NoneObj]
Returned(arr) == [status |-> "ok", at |-> "", arr |-> arr]
NotRun == [status |-> "notrun", at |-> "", arr |-> NoneObj]
\* the function is not the one being called
NotCalled == [status |-> "idle", at |-> "", arr |-> NoneObj]

\* checking.py _check_param_float_type
CheckParamFloatType(param) ==
    IF IsInstanceIntFloat(param)
    THEN Returned(NdArray(ScalarDtype(param), 0, param.elems))
    ELSE IF param.kind = "ndarray" /\ DtypeInFloatInt(param)
    THEN Returned(param)
    ELSE IF param.kind = "Series" /\ DtypeInFloatInt(param)
    THEN Returned(NdArray(param.dtype, 1, param.elems))
    ELSE Raised("ValueError", "type")

HasNaN(elems) == \E i \in 1..Len(elems) : elems[i].nan

\* ndarray.astype(int): each element cast as C casts it; the cast of a NaN is
\* whatever the platform yields, junk[i] here
AsTypeInt(elems, junk) ==
    [i \in 1..Len(elems) |->
        IF elems[i].nan THEN Num(junk[i]) ELSE Num(IntTrunc(elems[i].h))]

\* checking.py _check_param_int_type
\*   int(nan) raises ValueError; Series.astype(int) raises IntCastingNaNError,
\*   a ValueError, when a value is NaN
CheckParamIntType(param, junk) ==
    IF IsInstanceIntFloat(param)
    THEN IF HasNaN(param.elems)
         THEN Raised("ValueError", "type")
         ELSE Returned(NdArray("int64", 0, AsTypeInt(param.elems, junk)))
    ELSE IF param.kind = "ndarray" /\ DtypeInFloatInt(param)
    THEN Returned(NdArray("int64", param.ndim, AsTypeInt(param.elems, junk)))
    ELSE IF param.kind = "Series" /\ DtypeInFloatInt(param)
    THEN IF HasNaN(param.elems)
         THEN Raised("ValueError", "type")
         ELSE Returned(NdArray("int64", 1, AsTypeInt(param.elems, junk)))
    ELSE Raised("ValueError", "type")

(***************************************************************************)
(* Real arithmetic.  The formulas are evaluated in the prime field of      *)
(* Modulus elements: every rational constant of the code has its value     *)
(* there, and +, -, *, / obey the laws they obey on the reals, so two      *)
(* expressions that are equal as formulas are equal here.  The functions   *)
(* with no field counterpart (exp, sqrt, sin, ...) are read as fixed       *)
(* unary maps, one per function.  FNaN stands for every non-finite float:  *)
(* it comes out of a division by zero and spreads through every operation. *)
(***************************************************************************)
Modulus == 2^13 - 1
\* outside 0..Modulus-1
FNaN == Modulus

FAdd(a, b) == IF a = FNaN \/ b = FNaN THEN FNaN ELSE (a + b) % Modulus
FSub(a, b) == IF a = FNaN \/ b = FNaN THEN FNaN ELSE (a - b) % Modulus
FMul(a, b) == IF a = FNaN \/ b = FNaN THEN FNaN ELSE (a * b) % Modulus

RECURSIVE FPowInt(_, _)
FPowInt(a, n) ==
    IF n = 0 THEN 1
    ELSE IF n % 2 = 0 THEN FPowInt((a * a) % Modulus, n \div 2)
    ELSE (a * FPowInt((a * a) % Modulus, n \div 2)) % Modulus

FInv(a) == FPowInt(a % Modulus, Modulus - 2)

\* float division: x / 0 is inf or nan with a warning, never an exception
FDiv(a, b) ==
    IF a = FNaN \/ b = FNaN \/ b = 0 THEN FNaN ELSE (a * FInv(b)) % Modulus

\* the decimal literal num/den, e.g. 0.408 is Lit(408, 1000)
Lit(num, den) == ((num % Modulus) * FInv(den)) % Modulus

\* the k-th function without a field counterpart
Transc(k, x) ==
    IF x = FNaN THEN FNaN
    ELSE ((((x + k) * (x + k)) % Modulus) * (x + 2 * k + 1) + k) % Modulus

FExp(x) == Transc(1, x)
FSqrt(x) == Transc(2, x)
FSin(x) == Transc(3, x)
FCos(x) == Transc(4, x)
FTan(x) == Transc(5, x)
FArccos(x) == Transc(6, x)
FArctan(x) == Transc(7, x)
FLog(x) == Transc(8, x)
\* np.power(x, 5.26)
FPow526(x) == Transc(9, x)
\* np.pi
FPi == Lit(355, 113)

\* the number [nan, h] as a float
ToField(v) == IF v.nan THEN FNaN ELSE ((v.h % Modulus) * FInv(2)) % Modulus

(***************************************************************************)
(* numpy arrays of floats: [ok, ndim, elems].  ok = FALSE is the           *)
(* ValueError "operands could not be broadcast together".                  *)
(***************************************************************************)
FArr(ndim, elems) == [ok |-> TRUE, ndim |-> ndim, elems |-> elems]
BroadcastError == [ok |-> FALSE, ndim |-> 0, elems |-> <<>>]
Scalar(x) == FArr(0, <<x>>)

\* an ndarray object as an array of floats
AsFArr(obj) == FArr(obj.ndim, [i \in 1..Len(obj.elems) |-> ToField(obj.elems[i])])

\* a ufunc of one argument
Map1(F(_), a) ==
    IF ~a.ok THEN BroadcastError
    ELSE FArr(a.ndim, [i \in 1..Len(a.elems) |-> F(a.elems[i])])

Max2(x, y) == IF x >= y THEN x ELSE y

\* a ufunc of two arguments: equal sizes go element by element, a size of 1
\* is stretched, anything else cannot be broadcast
Map2(F(_, _), a, b) ==
    IF ~a.ok \/ ~b.ok THEN BroadcastError
    ELSE LET la == Len(a.elems)
             lb == Len(b.elems)
             nd == Max2(a.ndim, b.ndim)
         IN  IF la = lb
             THEN FArr(nd, [i \in 1..la |-> F(a.elems[i], b.elems[i])])
             ELSE IF la = 1
             THEN FArr(nd, [i \in 1..lb |-> F(a.elems[1], b.elems[i])])
             ELSE IF lb = 1
             THEN FArr(nd, [i \in 1..la |-> F(a.elems[i], b.elems[1])])
             ELSE BroadcastError

Add(a, b) == Map2(FAdd, a, b)
Sub(a, b) == Map2(FSub, a, b)
Mul(a, b) == Map2(FMul, a, b)
Div(a, b) == Map2(FDiv, a, b)
K(num, den) == Scalar(Lit(num, den))

(***************************************************************************)
(* methods_parameters/astronomical_variables.py                            *)
(***************************************************************************)
Neg(a) == Map1(LAMBDA x : FSub(0, x), a)
Sin(a) == Map1(FSin, a)
Cos(a) == Map1(FCos, a)
Tan(a) == Map1(FTan, a)
Sqrt(a) == Map1(FSqrt, a)
Exp(a) == Map1(FExp, a)
Pi == Scalar(FPi)

\* np.deg2rad
Deg2Rad(a) == Mul(a, Div(Pi, K(180, 1)))

\* the names the module astronomical_variables defines
AvarsNames ==
    {"daylight_hours", "sunset_hour_angle", "relative_distance_earth_sun",
     "solar_declination", "is_leap_year"}

daylight_hours(sha) == Mul(Div(K(24, 1), Pi), sha)

sunset_hour_angle(latitude, solar_dec) ==
    Map1(FArccos, Mul(Neg(Tan(latitude)), Tan(solar_dec)))

relative_distance_earth_sun(doy) ==
    Add(K(1, 1),
        Mul(K(33, 1000), Cos(Div(Mul(Mul(K(2, 1), Pi), doy), K(365, 1)))))

solar_declination(doy) ==
    Mul(K(409, 1000),
        Sin(Sub(Div(Mul(Mul(K(2, 1), Pi), doy), K(365, 1)), K(139, 100))))

(***************************************************************************)
(* methods_parameters/radiation_variables.py                               *)
(***************************************************************************)
\* solar constant [MJ.m-2.min-1]
Gsc == K(820, 10000)

extra_terrestrial_radiation(rel_dist_es, sha, latitude, solar_dec) ==
    Mul(Mul(Mul(Div(Mul(K(24, 1), K(60, 1)), Pi), Gsc), rel_dist_es),
        Add(Mul(Mul(sha, Sin(latitude)), Sin(solar_dec)),
            Mul(Mul(Cos(latitude), Cos(solar_dec)), Sin(sha))))

(***************************************************************************)
(* methods_parameters/meteorological_variables.py                          *)
(***************************************************************************)
atmospheric_pressure(altitude) ==
    Mul(K(1013, 10),
        Map1(FPow526,
             Div(Sub(K(293, 1), Mul(K(65, 10000), altitude)), K(293, 1))))

psychrometric_constant(atm_p) == Mul(K(665, 1000000), atm_p)

saturation_vapor_pressure(temperature) ==
    Mul(K(6108, 10000),
        Exp(Div(Mul(K(1727, 100), temperature),
                Add(temperature, K(2373, 10)))))

mean_saturation_vapor_pressure(tmin, tmax) ==
    Div(Add(saturation_vapor_pressure(tmin), saturation_vapor_pressure(tmax)),
        K(2, 1))

slope_saturation_vapour_pressure_curve(temperature) ==
    Div(Mul(Mul(K(4098, 1), K(6108, 10000)),
            Exp(Div(Mul(K(1727, 100), temperature),
                    Add(temperature, K(2373, 10))))),
        Mul(Add(temperature, K(2373, 10)), Add(temperature, K(2373, 10))))

actual_vapour_pressure(es, rhmean) == Div(Mul(es, rhmean), K(100, 1))

wind_speed_at_2m(uz, z) ==
    Div(Mul(uz, K(487, 100)),
        Map1(FLog, Sub(Mul(K(678, 10), z), K(542, 100))))

(***************************************************************************)
(* meteorological_vars.py: the functions hamon.py imports                  *)
(***************************************************************************)
\* saturation vapour pressure [mb], Lu et al. (2005)
mv_saturation_vapor_pressure(temp) ==
    Mul(K(6108, 1000),
        Exp(Div(Mul(K(1726939, 100000), temp), Add(temp, K(2373, 10)))))

mv_daylight_hours(sha) == Mul(Div(K(24, 1), Pi), sha)

mv_sunset_hour_angle(latitude, solar_dec) ==
    Map1(FArccos, Mul(Neg(Tan(latitude)), Tan(solar_dec)))

mv_solar_declination(doy) ==
    Mul(K(409, 1000),
        Sin(Sub(Div(Mul(Mul(K(2, 1), Pi), doy), K(365, 1)), K(139, 100))))

(***************************************************************************)
(* Which saturation_vapor_pressure a module's import statement binds.      *)
(***************************************************************************)
SvpOfModule(module, temperature) ==
    IF module = "pet_equations.meteorological_vars"
    THEN mv_saturation_vapor_pressure(temperature)
    ELSE saturation_vapor_pressure(temperature)

\* penman_monteith_FAO.py line 5: import ... as mvars
\* (variant: the module of the Hamon functions imported instead)
PmMvarsLegacy == "pet_equations.meteorological_vars"
PmMvars == "pet_equations.methods_parameters.meteorological_variables"

\* hamon.py lines 7-8: from ... import saturation_vapor_pressure
HamonSvpModule == "pet_equations.meteorological_vars"

(***************************************************************************)
(* checking.py: size checks.  TRUE: the check returns; FALSE: it raises    *)
(* ValueError.                                                             *)
(***************************************************************************)
\* (variants of _check_latitude: no singleton exception; no check)
CheckLatitudeOnlyFull(latitude, max_size) == Size(latitude) = max_size
CheckLatitudeAnySize(latitude, max_size) == TRUE
\* (variant: a latitude outside [-90, 90] degrees rejected as well)
CheckLatitudeInRange(latitude, max_size) ==
    /\ ~(Size(latitude) # 1 /\ Size(latitude) # max_size)
    /\ \A i \in 1..Size(latitude) :
          latitude.elems[i].h >= -180 /\ latitude.elems[i].h <= 180
CheckLatitude(latitude, max_size) ==
    ~(Size(latitude) # 1 /\ Size(latitude) # max_size)

\* (variants of _check_array_sizes: first array only; size 1 tolerated)
CheckArraySizesFirstOnly(params, max_size) == Size(params[1]) = max_size
CheckArraySizesBroadcast(params, max_size) ==
    \A i \in 1..Len(params) : Size(params[i]) \in {1, max_size}
CheckArraySizes(params, max_size) ==
    \A i \in 1..Len(params) : ~(Size(params[i]) # max_size)

RECURSIVE MaxOf(_)
MaxOf(sizes) ==
    IF Len(sizes) = 1 THEN sizes[1] ELSE Max2(sizes[1], MaxOf(Tail(sizes)))

(***************************************************************************)
(* Normalisation on its own: one object, both functions applied to it.     *)
(***************************************************************************)
FloatVals == {Num(-3), Num(3), NaN}
IntVals == {Num(-2), Num(4)}

SeqsUpTo(S, n) == UNION {[1..k -> S] : k \in 0..n}

\* what the cast of a NaN element may come out as
JunkInts == {-8, 0}

ChkScalars ==
    {NoneObj, StrObj, PyBool(2), NpInt64(4), NpFloat32(Num(3))}
    \cup {PyInt(v.h) : v \in IntVals}
    \cup {PyFloat(v) : v \in FloatVals}
    \cup {NpFloat64(v) : v \in FloatVals}
    \cup {NdArray("float64", 0, <<v>>) : v \in FloatVals}
    \cup {NdArray("int64", 0, <<v>>) : v \in IntVals}

ChkArrays ==
    {NdArray("float64", 1, e) : e \in SeqsUpTo(FloatVals, MaxLen)}
    \cup {NdArray("int64", 1, e) : e \in SeqsUpTo(IntVals, MaxLen)}
    \cup {NdArray(d, 1, e) : d \in {"float32", "int32", "object", "bool"},
                             e \in SeqsUpTo({Num(2)}, MaxLen)}
    \cup {PyList(e) : e \in SeqsUpTo({Num(3)}, MaxLen)}

ChkSeries ==
    {Series("float64", e) : e \in SeqsUpTo(FloatVals, MaxLen)}
    \cup {Series("int64", e) : e \in SeqsUpTo(IntVals, MaxLen)}
    \cup {Series(d, e) : d \in {"float32", "object"},
                         e \in SeqsUpTo({Num(2)}, MaxLen)}

ChkParams == ChkScalars \cup ChkArrays \cup ChkSeries

HgIdle ==
    /\ hpc = "idle"
    /\ hargs = <<>>
    /\ hloc = <<>>
    /\ htrace = <<>>
    /\ hout = NotRun

PmIdle ==
    /\ ppc = "idle"
    /\ pcall = <<>>
    /\ pargs = <<>>
    /\ ploc = <<>>
    /\ ptrace = <<>>
    /\ pout = NotRun

HmIdle ==
    /\ hmargs = <<>>
    /\ hmloc = <<>>
    /\ hmout = NotCalled

ShIdle ==
    /\ sfn = "idle"
    /\ sargs = <<>>
    /\ sout = NotCalled

InitCheck ==
    /\ chk_param \in ChkParams
    /\ chk_float = NotRun
    /\ chk_int = NotRun
    /\ HgIdle
    /\ PmIdle
    /\ HmIdle
    /\ ShIdle

CheckFloat ==
    /\ chk_float = NotRun
    /\ chk_float' = CheckParamFloatType(chk_param)
    /\ UNCHANGED <<chk_param, chk_int, hgVars, pmVars, hmVars, shVars>>

CheckInt ==
    /\ chk_int = NotRun
    /\ \E junk \in [1..Size(chk_param) -> JunkInts] :
          chk_int' = CheckParamIntType(chk_param, junk)
    /\ UNCHANGED <<chk_param, chk_float, hgVars, pmVars, hmVars, shVars>>

NextCheck == CheckFloat \/ CheckInt

SpecCheck == InitCheck /\ [][NextCheck]_vars

(***************************************************************************)
(* methods/hargreaves.py calculate, statement by statement.                *)
(***************************************************************************)
\* the order of the statements of calculate
\* (variant: the size checks after the first formula step)
HgNextPcChecksLate(pc) ==
    CASE pc = "types" -> "deg2rad"
      [] pc = "deg2rad" -> "sizes"
      [] pc = "sizes" -> "solar_declination"
      [] pc = "solar_declination" -> "sunset_hour_angle"
      [] pc = "sunset_hour_angle" -> "rel_dist_es"
      [] OTHER -> "done"
HgNextPc(pc) ==
    CASE pc = "types" -> "sizes"
      [] pc = "sizes" -> "deg2rad"
      [] pc = "deg2rad" -> "solar_declination"
      [] pc = "solar_declination" -> "sunset_hour_angle"
      [] pc = "sunset_hour_angle" -> "rel_dist_es"
      [] OTHER -> "done"

\* the steps that evaluate a formula
HgFormulaSteps ==
    {"deg2rad", "solar_declination", "sunset_hour_angle", "rel_dist_es",
     "extra_terrestrial_radiation", "eto"}

Unset == FArr(0, <<>>)

HgLocals0 ==
    [latitude |-> NoneObj, tmin |-> NoneObj, tmax |-> NoneObj,
     tmean |-> NoneObj, doy |-> NoneObj, max_size |-> 0,
     lat_rad |-> Unset, solar_dec |-> Unset, sha |-> Unset, eto |-> Unset]

\* max_size = max(latitude.size, tmin.size, tmax.size, doy.size)
HgMaxSize(latitude, tmin, tmax, tmean, doy) ==
    MaxOf(<<Size(latitude), Size(tmin), Size(tmax), Size(doy)>>)

\* the return expression
HgEto(et_ra, tmin, tmax, tmean) ==
    Mul(Mul(Mul(K(23, 10000), Mul(et_ra, K(408, 1000))),
            Sqrt(Sub(tmax, tmin))),
        Add(tmean, K(178, 10)))

HgRaise(exc, at) ==
    /\ hout' = Raised(exc, at)
    /\ hpc' = "done"

ZeroJunk(param) == [i \in 1..Size(param) |-> 0]

\* lines 47-51: the five normalisations, in order; the first that fails raises
HgCheckTypes ==
    /\ hpc = "types"
    /\ htrace' = Append(htrace, "types")
    /\ LET latitude == CheckParamFloatType(hargs.latitude)
           tmin == CheckParamFloatType(hargs.tmin)
           tmax == CheckParamFloatType(hargs.tmax)
           tmean == CheckParamFloatType(hargs.tmean)
           doy == CheckParamIntType(hargs.doy, ZeroJunk(hargs.doy))
       IN  IF \E r \in {latitude, tmin, tmax, tmean, doy} : r.status # "ok"
           THEN HgRaise("ValueError", "type") /\ UNCHANGED hloc
           ELSE /\ hloc' = [hloc EXCEPT !.latitude = latitude.arr,
                                        !.tmin = tmin.arr, !.tmax = tmax.arr,
                                        !.tmean = tmean.arr, !.doy = doy.arr]
                /\ hpc' = HgNextPc("types")
                /\ UNCHANGED hout
    /\ UNCHANGED <<hargs, chkVars, pmVars, hmVars, shVars>>

\* lines 53-56: max_size, _check_latitude, _check_array_sizes
HgCheckSizes ==
    /\ hpc = "sizes"
    /\ htrace' = Append(htrace, "sizes")
    /\ LET max_size == HgMaxSize(hloc.latitude, hloc.tmin, hloc.tmax,
                                 hloc.tmean, hloc.doy)
       IN  /\ hloc' = [hloc EXCEPT !.max_size = max_size]
           /\ IF ~CheckLatitude(hloc.latitude, max_size)
              THEN HgRaise("ValueError", "latitude")
              ELSE IF ~CheckArraySizes(
                         <<hloc.tmin, hloc.tmax, hloc.tmean, hloc.doy>>, max_size)
              THEN HgRaise("ValueError", "size")
              ELSE hpc' = HgNextPc("sizes") /\ UNCHANGED hout
    /\ UNCHANGED <<hargs, chkVars, pmVars, hmVars, shVars>>

\* line 59
HgDeg2Rad ==
    /\ hpc = "deg2rad"
    /\ htrace' = Append(htrace, "deg2rad")
    /\ hloc' = [hloc EXCEPT !.lat_rad = Deg2Rad(AsFArr(hloc.latitude))]
    /\ hpc' = HgNextPc("deg2rad")
    /\ UNCHANGED <<hargs, hout, chkVars, pmVars, hmVars, shVars>>

\* line 62
HgSolarDeclination ==
    /\ hpc = "solar_declination"
    /\ htrace' = Append(htrace, "solar_declination")
    /\ hloc' = [hloc EXCEPT !.solar_dec = solar_declination(AsFArr(hloc.doy))]
    /\ hpc' = HgNextPc("solar_declination")
    /\ UNCHANGED <<hargs, hout, chkVars, pmVars, hmVars, shVars>>

\* line 65
HgSunsetHourAngle ==
    /\ hpc = "sunset_hour_angle"
    /\ htrace' = Append(htrace, "sunset_hour_angle")
    /\ hloc' = [hloc EXCEPT !.sha = sunset_hour_angle(hloc.lat_rad, hloc.solar_dec)]
    /\ hpc' = HgNextPc("sunset_hour_angle")
    /\ UNCHANGED <<hargs, hout, chkVars, pmVars, hmVars, shVars>>

\* lines 68-75: avars.inverse_relative_distance_earth_sun is looked up in the
\* module; a name the module does not define raises AttributeError, and only
\* a name it defines lets the rest of the function run
HgRelDistToReturn ==
    /\ hpc = "rel_dist_es"
    /\ hpc' = "done"
    /\ IF "inverse_relative_distance_earth_sun" \in AvarsNames
       THEN LET rel_dist_es == relative_distance_earth_sun(AsFArr(hloc.doy))
                et_ra == extra_terrestrial_radiation(
                             rel_dist_es, hloc.sha, hloc.lat_rad, hloc.solar_dec)
            IN  /\ htrace' = htrace \o <<"rel_dist_es",
                                         "extra_terrestrial_radiation", "eto">>
                /\ hloc' = [hloc EXCEPT !.eto =
                               HgEto(et_ra, AsFArr(hloc.tmin),
                                     AsFArr(hloc.tmax), AsFArr(hloc.tmean))]
                /\ hout' = Returned(NoneObj)
       ELSE /\ htrace' = Append(htrace, "rel_dist_es")
            /\ hout' = Raised("AttributeError", "rel_dist_es")
            /\ UNCHANGED hloc
    /\ UNCHANGED <<hargs, chkVars, pmVars, hmVars, shVars>>

\* inputs: a wrong type, a scalar, an array or a Series of each length
Ramp(base, n) == [i \in 1..n |-> Num(base + 2 * (i - 1))]

HgFloatInputs(base) ==
    {StrObj, PyFloat(Num(base))}
    \cup {NdArray("float64", 1, Ramp(base, n)) : n \in 0..MaxLen}
    \cup {Series("float64", Ramp(base, n)) : n \in 1..MaxLen}

HgDoyInputs(base) ==
    {StrObj, PyInt(base), PyFloat(NaN), Series("float64", <<NaN>>)}
    \cup {NdArray("int64", 1, Ramp(base, n)) : n \in 0..MaxLen}
    \cup {Series("int64", Ramp(base, n)) : n \in 1..MaxLen}

\* the values of latitude, tmin, tmax, tmean, doy, in halves: a day of the
\* year at 45 degrees north, and values no day has (latitude 200 degrees,
\* tmax below tmin, day 450)
HgBases == {<<90, 29, 53, 41, 392>>, <<400, 53, 29, 41, 900>>}

ChkIdle ==
    /\ chk_param = NoneObj
    /\ chk_float = NotCalled
    /\ chk_int = NotCalled

InitHargreaves ==
    /\ ChkIdle
    /\ PmIdle
    /\ HmIdle
    /\ ShIdle
    /\ hpc = "types"
    /\ \E base \in HgBases :
          hargs \in [latitude : HgFloatInputs(base[1]),
                     tmin : HgFloatInputs(base[2]),
                     tmax : HgFloatInputs(base[3]),
                     tmean : HgFloatInputs(base[4]),
                     doy : HgDoyInputs(base[5])]
    /\ hloc = HgLocals0
    /\ htrace = <<>>
    /\ hout = NotRun

NextHargreaves ==
    \/ HgCheckTypes
    \/ HgCheckSizes
    \/ HgDeg2Rad
    \/ HgSolarDeclination
    \/ HgSunsetHourAngle
    \/ HgRelDistToReturn

SpecHargreaves == InitHargreaves /\ [][NextHargreaves]_vars

(***************************************************************************)
(* methods/penman_monteith_FAO.py calculate, statement by statement.       *)
(* The function takes its arguments as they come: nothing is normalised.   *)
(***************************************************************************)
\* bool(obj): None is false, a number is true unless it is zero (NaN is
\* true), an array of one element is its element, an array of several
\* elements and any Series raise ValueError.  Empty arrays are not passed.
PyTruth(obj) ==
    CASE obj.kind = "NoneType" -> "False"
      [] obj.kind \in {"int", "float"} ->
            IF obj.elems[1] = Num(0) THEN "False" ELSE "True"
      [] obj.kind = "ndarray" /\ Size(obj) = 1 ->
            IF obj.elems[1] = Num(0) THEN "False" ELSE "True"
      [] obj.kind = "ndarray" /\ Size(obj) > 1 -> "ValueError"
      [] obj.kind = "Series" -> "ValueError"

PmSteps == <<"tmean", "es", "ea", "atm_p", "psi_const", "delta", "eto">>

\* the statement after pc
PmNextPc(pc) ==
    IF \E i \in 1..(Len(PmSteps) - 1) : PmSteps[i] = pc
    THEN PmSteps[(CHOOSE i \in 1..(Len(PmSteps) - 1) : PmSteps[i] = pc) + 1]
    ELSE "done"

\* lines 10-19: the parameters, and the one that has a default
PmParams ==
    {"tmax", "tmin", "tmean", "rn", "rhmean", "u2", "altitude", "latitude",
     "doy", "g"}
PmDefaults == [g |-> PyInt(0)]

\* no parameter bound yet
PmUnbound == [n \in PmParams |-> NoneObj]

PmLocals0 ==
    [tmean |-> Unset, es |-> Unset, ea |-> Unset, atm_p |-> Unset,
     psi_const |-> Unset, delta |-> Unset, eto |-> Unset]

\* lines 21-22: the mean temperature the formulas use
PmTmean(tmax, tmin, tmean) ==
    IF PyTruth(tmean) = "ValueError" THEN BroadcastError
    ELSE IF PyTruth(tmean) = "False"
    THEN Div(Add(AsFArr(tmax), AsFArr(tmin)), K(2, 1))
    ELSE AsFArr(tmean)

\* lines 38-40
PmEto(delta, rn, g, psi_const, u2, es, ea, tmean) ==
    Div(Add(Mul(Mul(K(408, 1000), delta), Sub(rn, g)),
            Div(Mul(Mul(Mul(psi_const, K(900, 1)), u2), Sub(es, ea)),
                Add(tmean, K(273, 1)))),
        Add(delta, Mul(psi_const, Add(K(1, 1), Mul(K(34, 100), u2)))))

\* the net radiation of line 39: the parameter rn, lines 24-33 that would
\* compute it from doy and latitude being commented out
\* (variant: the extraterrestrial radiation of line 28 taken for it)
PmRnRecomputed(args) ==
    LET lat_rad == Deg2Rad(AsFArr(args.latitude))
        solar_dec == solar_declination(AsFArr(args.doy))
    IN  extra_terrestrial_radiation(
            relative_distance_earth_sun(AsFArr(args.doy)),
            sunset_hour_angle(lat_rad, solar_dec), lat_rad, solar_dec)
PmRn(args) == AsFArr(args.rn)

\* lines 21-42 as one function of the bound parameters: the outcome and the
\* value returned
PmCallResult(args) ==
    LET tmean == PmTmean(args.tmax, args.tmin, args.tmean)
        es == SvpOfModule(PmMvars, tmean)
        ea == actual_vapour_pressure(es, AsFArr(args.rhmean))
        atm_p == atmospheric_pressure(AsFArr(args.altitude))
        psi_const == psychrometric_constant(atm_p)
        delta == slope_saturation_vapour_pressure_curve(tmean)
        eto == PmEto(delta, PmRn(args), AsFArr(args.g), psi_const,
                     AsFArr(args.u2), es, ea, tmean)
    IN  IF eto.ok THEN [status |-> "ok", eto |-> eto]
        ELSE [status |-> "ValueError", eto |-> Unset]

\* one statement: it assigns value to the local name, or raises the
\* ValueError numpy raised while evaluating it
PmStep(pc, name, value) ==
    /\ ppc = pc
    /\ ptrace' = Append(ptrace, pc)
    /\ IF value.ok
       THEN /\ ploc' = [ploc EXCEPT ![name] = value]
            /\ ppc' = PmNextPc(pc)
            /\ pout' = IF PmNextPc(pc) = "done" THEN Returned(NoneObj) ELSE pout
       ELSE /\ pout' = Raised("ValueError", pc)
            /\ ppc' = "done"
            /\ UNCHANGED ploc
    /\ UNCHANGED <<pcall, pargs, chkVars, hgVars, hmVars, shVars>>

\* lines 9-20: the call binds its keyword arguments to the parameters.  A
\* keyword that names no parameter, or a parameter without default that no
\* keyword names, is a TypeError and the body does not run.
PmBind ==
    /\ ppc = "bind"
    /\ IF /\ DOMAIN pcall \subseteq PmParams
          /\ (PmParams \ DOMAIN PmDefaults) \subseteq DOMAIN pcall
       THEN /\ pargs' = [n \in PmParams |->
                            IF n \in DOMAIN pcall THEN pcall[n] ELSE PmDefaults[n]]
            /\ ppc' = "tmean"
            /\ UNCHANGED pout
       ELSE /\ pout' = Raised("TypeError", "bind")
            /\ ppc' = "done"
            /\ UNCHANGED pargs
    /\ UNCHANGED <<pcall, ploc, ptrace, chkVars, hgVars, hmVars, shVars>>

\* lines 21-22
PmDefaultTmean ==
    PmStep("tmean", "tmean", PmTmean(pargs.tmax, pargs.tmin, pargs.tmean))

\* line 30
PmEs == PmStep("es", "es", SvpOfModule(PmMvars, ploc.tmean))

\* line 31
PmEa == PmStep("ea", "ea", actual_vapour_pressure(ploc.es, AsFArr(pargs.rhmean)))

\* line 34
PmAtmP == PmStep("atm_p", "atm_p", atmospheric_pressure(AsFArr(pargs.altitude)))

\* line 35
PmPsiConst == PmStep("psi_const", "psi_const", psychrometric_constant(ploc.atm_p))

\* line 36
PmDelta ==
    PmStep("delta", "delta", slope_saturation_vapour_pressure_curve(ploc.tmean))

\* lines 38-42
PmReturnEto ==
    PmStep("eto", "eto",
           PmEto(ploc.delta, PmRn(pargs), AsFArr(pargs.g), ploc.psi_const,
                 AsFArr(pargs.u2), ploc.es, ploc.ea, ploc.tmean))

\* the arguments that may be series
PmVectorArgs == {"tmax", "tmin", "tmean", "rn", "rhmean", "u2", "doy", "g"}

\* the argument as an array of lens[name] values, or as a scalar
PmValue(name, base, lens) ==
    IF name \in DOMAIN lens
    THEN NdArray(IF name = "doy" THEN "int64" ELSE "float64", 1,
                 Ramp(base, lens[name]))
    ELSE IF name = "doy" THEN PyInt(base) ELSE PyFloat(Num(base))

\* the call written with every parameter as a keyword; g may be left out
PmCanonicalCalls ==
    {[n \in (PmParams \ omit) |->
        CASE n = "tmax" -> PmValue(n, 53, lens)
          [] n = "tmin" -> PmValue(n, 29, lens)
          [] n = "tmean" -> IF tnone THEN NoneObj ELSE PmValue(n, tbase, lens)
          [] n = "rn" -> PmValue(n, 27, lens)
          [] n = "rhmean" -> PmValue(n, 120, lens)
          [] n = "u2" -> PmValue(n, 4, lens)
          [] n = "altitude" -> PyFloat(Num(alt))
          [] n = "latitude" -> PyFloat(Num(lat))
          [] n = "doy" -> PmValue(n, doy, lens)
          [] n = "g" -> PmValue(n, 1, lens)] :
        lens \in UNION {[S -> 1..MaxLen] :
                           S \in {T \in SUBSET PmVectorArgs :
                                     Cardinality(T) <= MaxArrays}},
        tbase \in {0, 41}, tnone \in BOOLEAN, alt \in {200},
        lat \in {-40, 90}, doy \in {210, 392}, omit \in {{}, {"g"}}}

\* the keywords test_eto_with_mean_monthly_data and
\* test_penman_monteith_fao_equation write: the precomputed terms, as floats
\* or as 0-d arrays
PmTestKeywords == {"tmean", "delta", "es", "ea", "psi_const", "rn", "u2", "g"}
PmTestValue(n, tbase) ==
    CASE n = "tmean" -> Num(tbase)
      [] n = "delta" -> Num(1)
      [] n = "es" -> Num(9)
      [] n = "ea" -> Num(6)
      [] n = "psi_const" -> Num(3)
      [] n = "rn" -> Num(27)
      [] n = "u2" -> Num(4)
      [] n = "g" -> Num(1)
PmTestCalls ==
    {[n \in PmTestKeywords |->
        IF boxed THEN NdArray("float64", 0, <<PmTestValue(n, tbase)>>)
        ELSE PyFloat(PmTestValue(n, tbase))] :
        tbase \in {0, 41}, boxed \in BOOLEAN}

\* a canonical call with a keyword too many, or one too few
PmMiswrittenCalls ==
    {[n \in (DOMAIN c \cup {"delta"}) |->
        IF n = "delta" THEN PyFloat(Num(1)) ELSE c[n]] :
        c \in {d \in PmCanonicalCalls : \A n \in DOMAIN d : ~IsSized(d[n])}}
    \cup {[n \in (DOMAIN c \ {"rn"}) |-> c[n]] :
        c \in {d \in PmCanonicalCalls : \A n \in DOMAIN d : ~IsSized(d[n])}}

InitPM ==
    /\ ChkIdle
    /\ HgIdle
    /\ HmIdle
    /\ ShIdle
    /\ ppc = "bind"
    /\ pcall \in PmCanonicalCalls \cup PmTestCalls \cup PmMiswrittenCalls
    /\ pargs = PmUnbound
    /\ ploc = PmLocals0
    /\ ptrace = <<>>
    /\ pout = NotRun

NextPM ==
    \/ PmBind
    \/ PmDefaultTmean
    \/ PmEs
    \/ PmEa
    \/ PmAtmP
    \/ PmPsiConst
    \/ PmDelta
    \/ PmReturnEto

SpecPM == InitPM /\ [][NextPM]_vars

(***************************************************************************)
(* hamon.py: the import of the module, then calculate.                     *)
(***************************************************************************)
\* the names the module checking defines
CheckingNames ==
    {"_check_param_float_type", "_check_param_int_type", "_check_latitude",
     "_check_array_sizes"}

\* line 6: from pet_equations.checking import ...
HamonCheckingImports == {"_check_array_sizes", "_check_param_type"}

\* temp_c < 0.0, element by element, as an array of 1 (true) and 0 (false);
\* a comparison with NaN is false
LessThanZero(obj) ==
    FArr(obj.ndim,
         [i \in 1..Len(obj.elems) |->
             IF ~obj.elems[i].nan /\ obj.elems[i].h < 0 THEN 1 ELSE 0])

\* np.where(cond, 0.0, values)
WhereZero(cond, values) ==
    Map2(LAMBDA c, v : IF c = 1 THEN 0 ELSE v, cond, values)

\* lines 68-69, kpec = 1
HamonPet(temp_c, d_hours, svp) ==
    WhereZero(LessThanZero(temp_c),
              Mul(Mul(Mul(Mul(K(1, 1), K(165, 1000)), Div(d_hours, K(12, 1))),
                      K(2167, 10)),
                  Div(svp, Add(AsFArr(temp_c), K(2733, 10)))))

\* lines 62-66: the daylight hours when d_hours is None at that point
HamonDaylightHours(lat_deg, doy) ==
    LET lat_rad == Deg2Rad(AsFArr(lat_deg))
        solar_dec == mv_solar_declination(AsFArr(doy))
    IN  mv_daylight_hours(mv_sunset_hour_angle(lat_rad, solar_dec))

HmLocals0 == [svp |-> Unset, d_hours |-> Unset, pet |-> Unset]

\* lines 49-71, for a module whose imports resolved.  checking.py defines no
\* _check_param_type; the body is read with the normalisation checking.py
\* has for float parameters.
HamonCalculate(args) ==
    LET temp_c == CheckParamFloatType(args.temp_c)
        lat_deg == CheckParamFloatType(args.lat_deg)
        doy == CheckParamFloatType(args.doy)
        d_hours == CheckParamFloatType(args.d_hours)
    IN  IF \E r \in {temp_c, lat_deg, doy, d_hours} : r.status # "ok"
        THEN [out |-> Raised("ValueError", "type"), loc |-> HmLocals0]
        ELSE IF ~CheckArraySizes(
                    <<temp_c.arr, doy.arr, d_hours.arr>>,
                    MaxOf(<<Size(temp_c.arr), Size(doy.arr), Size(d_hours.arr)>>))
        THEN [out |-> Raised("ValueError", "size"), loc |-> HmLocals0]
        ELSE LET svp == SvpOfModule(HamonSvpModule, AsFArr(temp_c.arr))
                 dh == IF d_hours.arr = NoneObj
                       THEN HamonDaylightHours(lat_deg.arr, doy.arr)
                       ELSE AsFArr(d_hours.arr)
                 pet == HamonPet(temp_c.arr, dh, svp)
             IN  IF ~dh.ok \/ ~pet.ok
                 THEN [out |-> Raised("ValueError", "pet"),
                       loc |-> [HmLocals0 EXCEPT !.svp = svp]]
                 ELSE [out |-> Returned(NoneObj),
                       loc |-> [svp |-> svp, d_hours |-> dh, pet |-> pet]]

\* `import pet_equations.hamon` runs line 6 first: a name checking does not
\* define raises ImportError, the module is not created and calculate cannot
\* be called; only a module whose imports resolve runs calculate
HmImportAndCalculate ==
    /\ hmout = NotRun
    /\ IF HamonCheckingImports \subseteq CheckingNames
       THEN /\ hmout' = HamonCalculate(hmargs).out
            /\ hmloc' = HamonCalculate(hmargs).loc
       ELSE /\ hmout' = Raised("ImportError", "import")
            /\ UNCHANGED hmloc
    /\ UNCHANGED <<hmargs, chkVars, hgVars, pmVars, shVars>>

HmTempInputs ==
    {StrObj, PyFloat(Num(-3)), PyFloat(Num(0)), PyFloat(Num(41))}
    \cup {NdArray("float64", 1, Ramp(-2, n)) : n \in 1..MaxLen}

HmDaylightInputs ==
    {NoneObj, PyFloat(Num(24))}
    \cup {NdArray("float64", 1, Ramp(23, n)) : n \in 1..MaxLen}

InitHamon ==
    /\ ChkIdle
    /\ HgIdle
    /\ PmIdle
    /\ ShIdle
    /\ hmargs \in [temp_c : HmTempInputs,
                    lat_deg : {PyFloat(Num(90)),
                               NdArray("float64", 1, Ramp(90, MaxLen))},
                    doy : {PyInt(392)}
                          \cup {NdArray("int64", 1, Ramp(392, n)) : n \in 1..MaxLen},
                    d_hours : HmDaylightInputs]
    /\ hmloc = HmLocals0
    /\ hmout = NotRun

NextHamon == HmImportAndCalculate

SpecHamon == InitHamon /\ [][NextHamon]_vars

(***************************************************************************)
(* The two evaluators that compute a saturation vapour pressure.           *)
(***************************************************************************)
InitSvp == InitPM \/ InitHamon

NextSvp == NextPM \/ NextHamon

SpecSvp == InitSvp /\ [][NextSvp]_vars

(***************************************************************************)
(* methods_parameters/radiation_variables.py: soil heat flux.  A call      *)
(* returns a value, returns None (the function ends without a return       *)
(* statement), or raises.                                                  *)
(***************************************************************************)
SoilOutcome(status, val) == [status |-> status, at |-> "", val |-> val]

\* a - b on what the caller passed: None has no subtraction
\* (variant: a missing temperature counted as zero)
PySubNoneAsZero(a, b) ==
    LET x == IF a = NoneObj THEN PyFloat(Num(0)) ELSE a
        y == IF b = NoneObj THEN PyFloat(Num(0)) ELSE b
        d == Sub(AsFArr(x), AsFArr(y))
    IN  IF d.ok THEN SoilOutcome("value", d)
        ELSE SoilOutcome("ValueError", Unset)
PySub(a, b) ==
    IF a = NoneObj \/ b = NoneObj THEN SoilOutcome("TypeError", Unset)
    ELSE LET d == Sub(AsFArr(a), AsFArr(b))
         IN  IF d.ok THEN SoilOutcome("value", d)
             ELSE SoilOutcome("ValueError", Unset)

\* k * (the difference), when there is one
Times(k, diff) ==
    IF diff.status = "value" THEN SoilOutcome("value", Mul(k, diff.val))
    ELSE diff

\* (variants of soil_heat_flux: dekadal periods not taken for zero; the two
\* monthly formulas exchanged)
soil_heat_flux_daily_only(temp_iminus1, temp_i, temp_iplus1, time_interval) ==
    IF time_interval \in {"daily"}
    THEN SoilOutcome("value", Scalar(0))
    ELSE IF time_interval \in {"monthly", "dekadal"}
    THEN IF temp_iplus1 = NoneObj
         THEN Times(K(14, 100), PySub(temp_i, temp_iminus1))
         ELSE Times(K(7, 100), PySub(temp_iplus1, temp_iminus1))
    ELSE SoilOutcome("None", Unset)
soil_heat_flux_exchanged(temp_iminus1, temp_i, temp_iplus1, time_interval) ==
    IF time_interval \in {"daily", "dekadal"}
    THEN SoilOutcome("value", Scalar(0))
    ELSE IF time_interval = "monthly"
    THEN IF temp_iplus1 # NoneObj
         THEN Times(K(14, 100), PySub(temp_i, temp_iminus1))
         ELSE Times(K(7, 100), PySub(temp_iplus1, temp_iminus1))
    ELSE SoilOutcome("None", Unset)
soil_heat_flux(temp_iminus1, temp_i, temp_iplus1, time_interval) ==
    IF time_interval \in {"daily", "dekadal"}
    THEN SoilOutcome("value", Scalar(0))
    ELSE IF time_interval = "monthly"
    THEN IF temp_iplus1 = NoneObj
         THEN Times(K(14, 100), PySub(temp_i, temp_iminus1))
         ELSE Times(K(7, 100), PySub(temp_iplus1, temp_iminus1))
    ELSE SoilOutcome("None", Unset)

\* (variant: the two factors exchanged)
soil_heat_flux_for_short_periods_exchanged(rn, period) ==
    IF period = "daylight"
    THEN SoilOutcome("value", Mul(K(5, 10), AsFArr(rn)))
    ELSE IF period = "nighttime"
    THEN SoilOutcome("value", Mul(K(1, 10), AsFArr(rn)))
    ELSE SoilOutcome("None", Unset)
soil_heat_flux_for_hourly_or_short_periods(rn, period) ==
    IF period = "daylight"
    THEN SoilOutcome("value", Mul(K(1, 10), AsFArr(rn)))
    ELSE IF period = "nighttime"
    THEN SoilOutcome("value", Mul(K(5, 10), AsFArr(rn)))
    ELSE SoilOutcome("None", Unset)

SoilHeatFlux ==
    /\ sfn = "soil_heat_flux"
    /\ sout = NotRun
    /\ sout' = soil_heat_flux(sargs.temp_iminus1, sargs.temp_i,
                              sargs.temp_iplus1, sargs.time_interval)
    /\ UNCHANGED <<sfn, sargs, chkVars, hgVars, pmVars, hmVars>>

SoilHeatFluxShortPeriods ==
    /\ sfn = "soil_heat_flux_for_hourly_or_short_periods"
    /\ sout = NotRun
    /\ sout' = soil_heat_flux_for_hourly_or_short_periods(sargs.rn, sargs.period)
    /\ UNCHANGED <<sfn, sargs, chkVars, hgVars, pmVars, hmVars>>

\* temperatures: none, a float, an array of each length
SoilTemps(base) ==
    {NoneObj, PyFloat(Num(base)), PyFloat(Num(base + 5))}
    \cup {NdArray("float64", 1, Ramp(base, n)) : n \in 1..MaxLen}

\* period labels, the accepted ones and others
SoilLabels ==
    {"daily", "dekadal", "monthly", "hourly", "weekly", "daylight",
     "nighttime", ""}

InitSoil ==
    /\ ChkIdle
    /\ HgIdle
    /\ PmIdle
    /\ HmIdle
    /\ sout = NotRun
    /\ \/ /\ sfn = "soil_heat_flux"
          /\ sargs \in [temp_iminus1 : SoilTemps(58), temp_i : SoilTemps(61),
                         temp_iplus1 : SoilTemps(67), time_interval : SoilLabels]
       \/ /\ sfn = "soil_heat_flux_for_hourly_or_short_periods"
          /\ sargs \in [rn : (SoilTemps(27) \cup SoilTemps(-9)) \ {NoneObj},
                         period : SoilLabels]

NextSoil == SoilHeatFlux \/ SoilHeatFluxShortPeriods

SpecSoil == InitSoil /\ [][NextSoil]_vars

(***************************************************************************)
(* methods_parameters/radiation_variables.py: net radiation terms.  Beside *)
(* its value each result carries its sign, worked out exactly from the     *)
(* inputs: "neg", "zero", "pos", or "nan" for a result that is not a       *)
(* number.                                                                 *)
(***************************************************************************)
SignOf(n) == IF n < 0 THEN "neg" ELSE IF n = 0 THEN "zero" ELSE "pos"

SignMul(a, b) ==
    IF a = "nan" \/ b = "nan" THEN "nan"
    ELSE IF a = "zero" \/ b = "zero" THEN "zero"
    ELSE IF a = b THEN "pos" ELSE "neg"

\* the numbers of an object, as they are
RawArr(obj) == FArr(obj.ndim, obj.elems)

\* a value with its sign
Signed(val, sign) == [val |-> val, sign |-> sign]
SignedMul(x, y) == Signed(Mul(x.val, y.val), Map2(SignMul, x.sign, y.sign))

\* rs / rso <= 1.0 for rs = a/2 and rso = b/2: a quotient by zero is inf,
\* -inf or nan, and only -inf passes the test
RatioAtMostOne(a, b) ==
    IF b.h > 0 THEN a.h <= b.h
    ELSE IF b.h < 0 THEN a.h >= b.h
    ELSE a.h < 0

\* the sign of 1.35 r - 0.35 for r = rs / rso = a / b
CloudinessSign(a, b) ==
    IF b.h = 0 THEN "neg"
    ELSE SignMul(SignOf(27 * a.h - 7 * b.h), SignOf(b.h))

\* lines 86 and 93: ratio_rs_rso, then 1.35 * ratio_rs_rso - 0.35
\* (variant: the ratio used as it is)
LwCloudinessUnclamped(rs, rso) ==
    Signed(Sub(Mul(K(135, 100), Div(AsFArr(rs), AsFArr(rso))), K(35, 100)),
           Map2(LAMBDA a, b :
                    IF b.h = 0
                    THEN (IF a.h = 0 THEN "nan" ELSE SignOf(a.h))
                    ELSE CloudinessSign(a, b),
                RawArr(rs), RawArr(rso)))
LwCloudiness(rs, rso) ==
    LET cond == Map2(LAMBDA a, b : IF RatioAtMostOne(a, b) THEN 1 ELSE 0,
                     RawArr(rs), RawArr(rso))
        ratio_rs_rso == Map2(LAMBDA c, v : IF c = 1 THEN v ELSE 1, cond,
                             Div(AsFArr(rs), AsFArr(rso)))
    IN  Signed(Sub(Mul(K(135, 100), ratio_rs_rso), K(35, 100)),
               Map2(LAMBDA a, b :
                        IF RatioAtMostOne(a, b) THEN CloudinessSign(a, b)
                        ELSE "pos",
                    RawArr(rs), RawArr(rso)))

\* line 92: 0.34 - 0.14 * sqrt(ea); for ea = h/2 >= 0 its sign is that of
\* 0.34^2 - 0.14^2 ea, the square root of a negative number is nan
\* (variant: the two terms exchanged)
LwHumidityExchanged(ea) ==
    Signed(Sub(Mul(K(14, 100), Sqrt(AsFArr(ea))), K(34, 100)),
           Map1(LAMBDA e : IF e.h < 0 THEN "nan"
                           ELSE SignOf(196 * e.h - 2312),
                RawArr(ea)))
LwHumidity(ea) ==
    Signed(Sub(K(34, 100), Mul(K(14, 100), Sqrt(AsFArr(ea)))),
           Map1(LAMBDA e : IF e.h < 0 THEN "nan"
                           ELSE SignOf(2312 - 196 * e.h),
                RawArr(ea)))

\* np.power(x, 4)
Pow4(a) == Map1(LAMBDA x : FMul(FMul(x, x), FMul(x, x)), a)

\* lines 84 and 89-91: sigma * 0.5 * ((tmax + 273.16)^4 + (tmin + 273.16)^4),
\* sigma = 4.903e-9; a sum of fourth powers of numbers that are not zero
\* (no multiple of 0.5 is -273.16) is positive
LwStefanBoltzmann(tmax, tmin) ==
    Signed(Mul(Mul(Mul(K(4903, 1000000), K(1, 1000000)), K(5, 10)),
               Add(Pow4(Add(AsFArr(tmax), K(27316, 100))),
                   Pow4(Add(AsFArr(tmin), K(27316, 100))))),
           Map2(LAMBDA a, b : "pos", RawArr(tmax), RawArr(tmin)))

\* a returned array and its signs, or the ValueError of arrays that do not
\* broadcast
RadOutcome(x) ==
    IF x.val.ok
    THEN [status |-> "value", at |-> "", val |-> x.val, sign |-> x.sign.elems]
    ELSE [status |-> "ValueError", at |-> "", val |-> Unset, sign |-> <<>>]

net_longwave_radiation(tmax, tmin, rs, rso, ea) ==
    RadOutcome(SignedMul(SignedMul(LwStefanBoltzmann(tmax, tmin),
                                   LwHumidity(ea)),
                         LwCloudiness(rs, rso)))

\* line 43: (1 - alpha) * rs, alpha = 0.23 unless given; for alpha = a/2 the
\* sign of 1 - alpha is that of 2 - a
\* (variant: alpha - 1)
net_shortwave_radiation_exchanged(rs, alpha) ==
    RadOutcome(
        SignedMul(
            IF alpha = NoneObj
            THEN Signed(Sub(K(23, 100), K(1, 1)), Scalar("neg"))
            ELSE Signed(Sub(AsFArr(alpha), K(1, 1)),
                        Map1(LAMBDA a : SignOf(a.h - 2), RawArr(alpha))),
            Signed(AsFArr(rs), Map1(LAMBDA r : SignOf(r.h), RawArr(rs)))))
net_shortwave_radiation(rs, alpha) ==
    RadOutcome(
        SignedMul(
            IF alpha = NoneObj
            THEN Signed(Sub(K(1, 1), K(23, 100)), Scalar("pos"))
            ELSE Signed(Sub(K(1, 1), AsFArr(alpha)),
                        Map1(LAMBDA a : SignOf(2 - a.h), RawArr(alpha))),
            Signed(AsFArr(rs), Map1(LAMBDA r : SignOf(r.h), RawArr(rs)))))

NetLongwaveRadiation ==
    /\ sfn = "net_longwave_radiation"
    /\ sout = NotRun
    /\ sout' = net_longwave_radiation(sargs.tmax, sargs.tmin, sargs.rs,
                                      sargs.rso, sargs.ea)
    /\ UNCHANGED <<sfn, sargs, chkVars, hgVars, pmVars, hmVars>>

NetShortwaveRadiation ==
    /\ sfn = "net_shortwave_radiation"
    /\ sout = NotRun
    /\ sout' = net_shortwave_radiation(sargs.rs, sargs.alpha)
    /\ UNCHANGED <<sfn, sargs, chkVars, hgVars, pmVars, hmVars>>

\* measured and clear-sky radiation, in halves: within the usual range,
\* overcast, brighter than clear sky, none at all, and values no day has
RsRsoPairs ==
    {<<20, 27>>, <<5, 27>>, <<0, 27>>, <<31, 27>>,
     <<0, 0>>, <<-6, 0>>, <<-30, -27>>}

\* an argument as a float or as an array of the values
FloatOrArray(values) ==
    IF Len(values) = 1
    THEN {PyFloat(Num(values[1])), NdArray("float64", 1, <<Num(values[1])>>)}
    ELSE {NdArray("float64", 1, [i \in 1..Len(values) |-> Num(values[i])])}

InitRadiation ==
    /\ ChkIdle
    /\ HgIdle
    /\ PmIdle
    /\ HmIdle
    /\ sout = NotRun
    /\ \/ /\ sfn = "net_longwave_radiation"
          /\ \E n \in 1..MaxLen :
                \E pairs \in [1..n -> RsRsoPairs],
                   t \in {<<53, 29>>, <<29, 53>>},
                   ea \in {-2, 0, 11, 12} :
                   \E tmax \in {PyFloat(Num(t[1])),
                                 NdArray("float64", 1, Ramp(t[1], MaxLen))},
                      rs \in FloatOrArray([i \in 1..n |-> pairs[i][1]]),
                      rso \in FloatOrArray([i \in 1..n |-> pairs[i][2]]) :
                      sargs = [tmax |-> tmax, tmin |-> PyFloat(Num(t[2])),
                               rs |-> rs, rso |-> rso,
                               ea |-> PyFloat(Num(ea))]
       \/ /\ sfn = "net_shortwave_radiation"
          /\ \E n \in 1..MaxLen :
                \E values \in [1..n -> {-6, 0, 20}] :
                   sargs \in [rs : FloatOrArray(values),
                              alpha : {NoneObj} \cup
                                      {PyFloat(Num(a)) : a \in {0, 1, 2, 3, -1}}]

NextRadiation == NetLongwaveRadiation \/ NetShortwaveRadiation

SpecRadiation == InitRadiation /\ [][NextRadiation]_vars

(***************************************************************************)
(* The two formulations of the sunset hour angle, computed exactly.  An    *)
(* angle in (-pi/2, pi/2) is given by the sign and the square of its       *)
(* tangent, in thousandths; an angle in [0, pi] by the sign and the square *)
(* of its cosine, a fraction in lowest terms.                              *)
(***************************************************************************)
Thousand == 10^3
Million == Thousand * Thousand

TanAngle(sgn, tan2) == [sgn |-> sgn, tan2 |-> tan2]

RECURSIVE Gcd(_, _)
Gcd(a, b) == IF b = 0 THEN a ELSE Gcd(b, a % b)

NaNAngle == [nan |-> TRUE, sgn |-> 0, num |-> 0, den |-> 1]
CosAngle(sgn, num, den) ==
    IF num = 0 THEN [nan |-> FALSE, sgn |-> 0, num |-> 0, den |-> 1]
    ELSE [nan |-> FALSE, sgn |-> sgn,
          num |-> num \div Gcd(num, den), den |-> den \div Gcd(num, den)]

\* np.tan(latitude) * np.tan(solar_dec): its sign and its square in millionths
TanProduct(latitude, solar_dec) ==
    [sgn |-> latitude.sgn * solar_dec.sgn, sq |-> latitude.tan2 * solar_dec.tan2]

\* astronomical_variables.py line 36: np.arccos(-t), nan outside [-1, 1]
ArccosOfNegated(t) ==
    IF t.sq > Million THEN NaNAngle ELSE CosAngle(-t.sgn, t.sq, Million)

\* astronomical_variables.sunset_hour_angle
SunsetHourAngleArccos(latitude, solar_dec) ==
    LET sha == Map1(ArccosOfNegated, Map2(TanProduct, latitude, solar_dec))
    IN  IF sha.ok
        THEN [status |-> "value", at |-> "", val |-> sha, x |-> <<>>]
        ELSE [status |-> "ValueError", at |-> "", val |-> Unset, x |-> <<>>]

\* alternatives_equations.py line 46: the number 0.00001, in millionths
SqrtFloor == Million \div 10^5

\* line 46: x if x > 0.0 else 0.00001
\* (variant: x if x > 0.00001 else 0.00001)
ClampFloored(x) == IF x > SqrtFloor THEN x ELSE SqrtFloor
Clamp(x) == IF x > 0 THEN x ELSE SqrtFloor

\* line 47: pi/2 - arctan(-t / sqrt(x)), the angle whose cosine is
\* -t / sqrt(x + t^2)
HalfPiMinusArctan(t, x) == CosAngle(-t.sgn, t.sq, x + t.sq)

\* the conversion of an array to bool by `if`: ambiguous for more than one
\* element
\* (variant: np.where, element by element)
TruthAmbiguousNever(x) == FALSE
TruthAmbiguous(x) == Len(x.elems) > 1

\* alternatives_equations.sunset_hour_angle, lines 45-48
SunsetHourAngleClamped(latitude, solar_dec) ==
    LET t == Map2(TanProduct, latitude, solar_dec)
        x == Map1(LAMBDA e : Million - e.sq, t)
    IN  IF ~x.ok
        THEN [status |-> "ValueError", at |-> "x", val |-> Unset, x |-> <<>>]
        ELSE IF TruthAmbiguous(x)
        THEN [status |-> "ValueError", at |-> "clamp", val |-> Unset,
              x |-> <<>>]
        ELSE [status |-> "value", at |-> "",
              val |-> Map2(HalfPiMinusArctan, t, Map1(Clamp, x)),
              x |-> Map1(Clamp, x).elems]

\* the functions of astronomical_variables.py of one array
AstroOfOne(fn, a) ==
    CASE fn = "daylight_hours" -> daylight_hours(a)
      [] fn = "relative_distance_earth_sun" -> relative_distance_earth_sun(a)
      [] fn = "solar_declination" -> solar_declination(a)

SunsetHourAngleArccosCall ==
    /\ sfn = "astronomical_variables.sunset_hour_angle"
    /\ sout = NotRun
    /\ sout' = SunsetHourAngleArccos(sargs.latitude, sargs.solar_dec)
    /\ UNCHANGED <<sfn, sargs, chkVars, hgVars, pmVars, hmVars>>

SunsetHourAngleClampedCall ==
    /\ sfn = "alternatives_equations.sunset_hour_angle"
    /\ sout = NotRun
    /\ sout' = SunsetHourAngleClamped(sargs.latitude, sargs.solar_dec)
    /\ UNCHANGED <<sfn, sargs, chkVars, hgVars, pmVars, hmVars>>

AstroOfOneCall ==
    /\ sfn \in {"daylight_hours", "relative_distance_earth_sun",
                 "solar_declination"}
    /\ sout = NotRun
    /\ sout' = [status |-> "value", at |-> "",
                val |-> AstroOfOne(sfn, AsFArr(sargs.a)), x |-> <<>>]
    /\ UNCHANGED <<sfn, sargs, chkVars, hgVars, pmVars, hmVars>>

\* latitude and declination: mid latitudes on either hemisphere, the
\* equator, and high latitudes where tan(lat) tan(dec) is close to 1, is 1
\* or exceeds 1
LatDecPairs ==
    {<<TanAngle(1, 1000), TanAngle(1, 100)>>,
     <<TanAngle(-1, 1000), TanAngle(1, 100)>>,
     <<TanAngle(0, 0), TanAngle(-1, 167)>>,
     <<TanAngle(1, 11111), TanAngle(1, 90)>>,
     <<TanAngle(1, 5988), TanAngle(1, 167)>>,
     <<TanAngle(-1, 5988), TanAngle(1, 167)>>,
     <<TanAngle(1, 8000), TanAngle(-1, 125)>>,
     <<TanAngle(1, 8000), TanAngle(1, 150)>>}

InitAstro ==
    /\ ChkIdle
    /\ HgIdle
    /\ PmIdle
    /\ HmIdle
    /\ sout = NotRun
    /\ \/ /\ sfn \in {"astronomical_variables.sunset_hour_angle",
                       "alternatives_equations.sunset_hour_angle"}
          /\ \E n \in 1..MaxLen :
                \E pairs \in [1..n -> LatDecPairs] :
                   \E nd \in (IF n = 1 THEN {0, 1} ELSE {1}) :
                      sargs = [latitude |-> FArr(nd, [i \in 1..n |-> pairs[i][1]]),
                               solar_dec |-> FArr(nd, [i \in 1..n |-> pairs[i][2]])]
       \/ /\ sfn = "daylight_hours"
          /\ \E n \in 1..MaxLen, base \in {1, 3, 5} :
                sargs = [a |-> NdArray("float64", 1, Ramp(base, n))]
       \/ /\ sfn \in {"relative_distance_earth_sun", "solar_declination"}
          /\ \E n \in 1..MaxLen, base \in {2, 392, 730} :
                sargs = [a |-> NdArray("int64", 1, Ramp(base, n))]

NextAstro ==
    \/ SunsetHourAngleArccosCall
    \/ SunsetHourAngleClampedCall
    \/ AstroOfOneCall

SpecAstro == InitAstro /\ [][NextAstro]_vars

(***************************************************************************)
(* The library as a whole: one of its functions is called.                 *)
(***************************************************************************)
Init ==
    \/ InitCheck
    \/ InitHargreaves
    \/ InitPM
    \/ InitHamon
    \/ InitSoil
    \/ InitRadiation
    \/ InitAstro

Next ==
    \/ NextCheck
    \/ NextHargreaves
    \/ NextPM
    \/ NextHamon
    \/ NextSoil
    \/ NextRadiation
    \/ NextAstro

Spec == Init /\ [][Next]_vars

(***************************************************************************)
(*                               Properties                                *)
(***************************************************************************)

\* The inputs the interface description names as acceptable: a scalar
\* number, a numeric (float or integer) array, a Series of float or integer
\* dtype.  A Python list is left to the code's reading.
NumericDtypes == {"float64", "int64", "float32", "int32"}
DescribedAsAccepted(p) ==
    \/ p.kind \in {"int", "float", "bool", "np.int64", "np.float64", "np.float32"}
    \/ p.kind \in {"ndarray", "Series"} /\ p.dtype \in NumericDtypes

\* C4: normalisation accepts exactly a scalar number, a numeric sequence of
\* float or integer values, or a Series of float or integer dtype, and raises
\* for every other input.
C4_AcceptsExactlyNumeric ==
    /\ chk_float.status # "notrun" =>
          (chk_float.status = "ok" <=> DescribedAsAccepted(chk_param))
    /\ (chk_int.status # "notrun" /\ ~HasNaN(chk_param.elems)) =>
          (chk_int.status = "ok" <=> DescribedAsAccepted(chk_param))

\* C5: for an int or float scalar, ndarray or Series that it accepts,
\* _check_param_float_type returns an array of float element type.
C5_FloatCheckReturnsFloat ==
    (/\ chk_float.status = "ok"
     /\ chk_param.kind \in {"int", "float", "np.float64", "ndarray", "Series"})
        => chk_float.arr.dtype = "float64"

\* r is the integer h converts to: whole, not further from zero than h, on
\* h's side of zero and less than one unit away from it
IsIntegerPartOf(r, h) ==
    /\ r % 2 = 0
    /\ r * h >= 0
    /\ (IF r >= 0 THEN r ELSE -r) <= (IF h >= 0 THEN h ELSE -h)
    /\ (IF h >= 0 THEN h - r ELSE r - h) < 2

\* C6: for every input it accepts, _check_param_int_type returns an array of
\* integer element type with as many elements as the input, each the input
\* element converted to an integer (a NaN element of an ndarray has no
\* integer value: its cast is some integer).
C6_IntCheckConverts ==
    chk_int.status = "ok" =>
        /\ chk_int.arr.kind = "ndarray"
        /\ chk_int.arr.dtype = "int64"
        /\ Size(chk_int.arr) = Size(chk_param)
        /\ \A i \in 1..Size(chk_param) :
              /\ IsWhole(chk_int.arr.elems[i])
              /\ ~chk_param.elems[i].nan =>
                    IsIntegerPartOf(chk_int.arr.elems[i].h, chk_param.elems[i].h)

\* a float array of full length with a negative fractional element went
\* through the integer conversion
C6_Witness ==
    /\ chk_int.status = "ok"
    /\ chk_param.kind \in {"ndarray", "Series"}
    /\ chk_param.dtype = "float64"
    /\ Size(chk_param) = MaxLen
    /\ \E i \in 1..Size(chk_param) :
          ~chk_param.elems[i].nan /\ chk_param.elems[i].h = -3

(***************************************************************************)
(* Hargreaves: which calls are which                                       *)
(***************************************************************************)
HgNonLatitude == <<hargs.tmin, hargs.tmax, hargs.tmean, hargs.doy>>


\* every argument is of a type the normalisation takes
HgTypesValid ==
    /\ CheckParamFloatType(hargs.latitude).status = "ok"
    /\ CheckParamFloatType(hargs.tmin).status = "ok"
    /\ CheckParamFloatType(hargs.tmax).status = "ok"
    /\ CheckParamFloatType(hargs.tmean).status = "ok"
    /\ CheckParamIntType(hargs.doy, ZeroJunk(hargs.doy)).status = "ok"

\* tmin, tmax, tmean and doy all hold n values
HgCommonLength(n) == \A i \in 1..4 : Size(HgNonLatitude[i]) = n

HgRanFormula == \E i \in 1..Len(htrace) : htrace[i] \in HgFormulaSteps

\* C1: when two of the arrays tmin, tmax, tmean, doy differ in length, the
\* call ends in a ValueError: no formula step runs and no result is returned.
C1_SizeMismatchRaises ==
    (\E i, j \in 1..4 :
        /\ IsSized(HgNonLatitude[i]) /\ IsSized(HgNonLatitude[j])
        /\ Size(HgNonLatitude[i]) # Size(HgNonLatitude[j]))
    => /\ hpc \in {"types", "sizes", "done"}
       /\ hpc = "done" => hout.status = "ValueError"
       /\ ~HgRanFormula
       /\ hloc.eto = Unset

\* type-valid arrays of lengths that differ were rejected by the size check
C1_Witness ==
    /\ HgTypesValid
    /\ \A i \in 1..4 : IsSized(HgNonLatitude[i])
    /\ Size(hargs.tmin) = MaxLen /\ Size(hargs.tmax) = MaxLen - 1
    /\ hout = Raised("ValueError", "size")

\* C2: with a latitude of size 1 and tmin, tmax, tmean, doy of one common
\* length n >= 1, _check_latitude and _check_array_sizes both return: once
\* the size checks have run the call has not ended in a ValueError.
C2_SingletonLatitudePasses ==
    (/\ HgTypesValid
     /\ Size(hargs.latitude) = 1
     /\ \E n \in 1..MaxLen : HgCommonLength(n)
     /\ hpc \notin {"types", "sizes"})
    => /\ hout.status # "ValueError"
       /\ htrace[2] = "sizes"

\* Series of full length beside a scalar latitude got past both checks
C2_Witness ==
    /\ hargs.latitude.kind = "float"
    /\ \A i \in 1..4 : HgNonLatitude[i].kind = "Series"
    /\ HgCommonLength(MaxLen)
    /\ hpc = "deg2rad"
    /\ hout.status = "notrun"

\* C3: when tmin, tmax, tmean, doy have one common length n and the latitude
\* size is neither 1 nor n, the call ends in a ValueError, for a shorter and
\* for a longer latitude alike.
C3_BadLatitudeSizeRaises ==
    (/\ HgTypesValid
     /\ \E n \in 0..MaxLen :
           HgCommonLength(n) /\ Size(hargs.latitude) \notin {1, n})
    => /\ hpc \in {"types", "sizes", "done"}
       /\ hpc = "done" => hout.status = "ValueError"
       /\ ~HgRanFormula

\* a latitude longer than the other inputs was rejected
C3_Witness ==
    /\ HgTypesValid
    /\ HgCommonLength(MaxLen - 1)
    /\ Size(hargs.latitude) = MaxLen
    /\ hpc = "done"
    /\ hout.status = "ValueError"

\* C7: every type check and every size check comes before any formula step:
\* a formula step has both checks in front of it, and a call that ends in a
\* type or size error has evaluated no formula step.
C7_ChecksBeforeFormulas ==
    /\ \A i \in 1..Len(htrace) :
          htrace[i] \in HgFormulaSteps =>
              /\ \E j \in 1..(i - 1) : htrace[j] = "types"
              /\ \E j \in 1..(i - 1) : htrace[j] = "sizes"
    /\ hout.status = "ValueError" => ~HgRanFormula

\* a size error was raised with nothing but the two checks evaluated
C7_Witness ==
    /\ hout = Raised("ValueError", "size")
    /\ htrace = <<"types", "sizes">>

\* some of tmin, tmax, tmean are Python scalars, every other input but
\* latitude is an array or Series of n > 1 values, latitude is a scalar or
\* holds n values
HgScalarBesideArrays(n) ==
    /\ n > 1
    /\ \E i \in 1..3 : IsPyScalar(HgNonLatitude[i])
    /\ \A i \in 1..4 :
          \/ i <= 3 /\ IsPyScalar(HgNonLatitude[i])
          \/ IsSized(HgNonLatitude[i]) /\ Size(HgNonLatitude[i]) = n
    /\ \/ IsPyScalar(hargs.latitude)
       \/ IsSized(hargs.latitude) /\ Size(hargs.latitude) = n

\* C8 as stated: a call with scalar tmin, tmax or tmean beside arrays of
\* length n > 1 is accepted.
C8_ScalarBroadcastAccepted ==
    ((\E n \in 2..MaxLen : HgScalarBesideArrays(n)) /\ hpc = "done")
        => hout.status # "ValueError"

\* C8, amended: such a call is rejected by _check_array_sizes with a
\* ValueError, before any formula step; of the five inputs only latitude may
\* be a scalar beside arrays.
C8_ScalarBesideArraysRejected ==
    (\E n \in 2..MaxLen : HgScalarBesideArrays(n))
    => /\ hpc \in {"types", "sizes", "done"}
       /\ hpc = "done" => hout = Raised("ValueError", "size")
       /\ ~HgRanFormula

\* scalar temperatures beside a day-of-year array of full length: rejected
C8_Witness ==
    /\ \A i \in 1..3 : IsPyScalar(HgNonLatitude[i])
    /\ hargs.doy.kind = "ndarray" /\ Size(hargs.doy) = MaxLen
    /\ IsPyScalar(hargs.latitude)
    /\ hout = Raised("ValueError", "size")

\* the Hargreaves formula on the normalised inputs, Ra from the inverse
\* relative earth-sun distance, the declination and the sunset hour angle
HgFormula ==
    LET doy == AsFArr(hloc.doy)
        lat_rad == Deg2Rad(AsFArr(hloc.latitude))
        solar_dec == solar_declination(doy)
        sha == sunset_hour_angle(lat_rad, solar_dec)
        ra == extra_terrestrial_radiation(
                  relative_distance_earth_sun(doy), sha, lat_rad, solar_dec)
    IN  HgEto(ra, AsFArr(hloc.tmin), AsFArr(hloc.tmax), AsFArr(hloc.tmean))

\* C9: for a type-valid and size-valid input set the call completes without
\* raising and returns the Hargreaves formula's value.
C9_HargreavesReturnsFormula ==
    (hpc = "done" /\ hout.status # "ValueError")
        => hout.status = "ok" /\ hloc.eto = HgFormula

(***************************************************************************)
(* Penman-Monteith                                                         *)
(***************************************************************************)
\* the arguments given as arrays all hold the same number of values
PmLengthsAgree ==
    \A a, b \in PmVectorArgs :
        (IsSized(pargs[a]) /\ IsSized(pargs[b])) => Size(pargs[a]) = Size(pargs[b])

\* the FAO-56 combination for mean temperature T, as the design states it
PmFormula(T) ==
    LET es == saturation_vapor_pressure(T)
        ea == Div(Mul(es, AsFArr(pargs.rhmean)), K(100, 1))
        gamma == psychrometric_constant(
                     atmospheric_pressure(AsFArr(pargs.altitude)))
        Delta == slope_saturation_vapour_pressure_curve(T)
        Rn == AsFArr(pargs.rn)
        G == AsFArr(pargs.g)
        u2 == AsFArr(pargs.u2)
    IN  Div(Add(Mul(K(408, 1000), Mul(Delta, Sub(Rn, G))),
                Mul(Mul(Div(Mul(gamma, K(900, 1)), Add(T, K(273, 1))), u2),
                    Sub(es, ea))),
            Add(Delta, Mul(gamma, Add(K(1, 1), Mul(K(34, 100), u2)))))

\* C10: given tmax, tmin, tmean, Rn, rhmean, u2, altitude, latitude, doy and
\* G, the call returns the FAO-56 combination with es, ea, gamma and Delta
\* computed from the tmean it was given.
C10_PmReturnsFormula ==
    (ppc = "done" /\ pargs.tmean # NoneObj /\ PmLengthsAgree)
        => /\ pout.status = "ok"
           /\ ploc.eto = PmFormula(AsFArr(pargs.tmean))

\* C11: called with the precomputed keyword arguments tmean, delta, es, ea,
\* psi_const, rn, u2 and g, as the tests call it, the function returns the
\* FAO-56 combination of those values.
C11_PrecomputedKeywordsAccepted ==
    (DOMAIN pcall = PmTestKeywords /\ ppc = "done")
        => /\ pout.status = "ok"
           /\ ploc.eto = PmEto(AsFArr(pcall.delta), AsFArr(pcall.rn),
                               AsFArr(pcall.g), AsFArr(pcall.psi_const),
                               AsFArr(pcall.u2), AsFArr(pcall.es),
                               AsFArr(pcall.ea), AsFArr(pcall.tmean))

\* the call has bound its parameters and evaluated lines 21-22
PmPastTmean == ppc \notin {"bind", "tmean"} /\ pout.status # "TypeError"

\* C12: the mean temperature is (tmax + tmin) / 2 only when tmean is None; a
\* supplied tmean, whatever its value and whether scalar or array, is the one
\* es and Delta are computed from, and the call does not fail because of it.
C12_SuppliedTmeanUsed ==
    PmPastTmean =>
        IF pargs.tmean = NoneObj
        THEN pout.status = "ValueError"
             \/ ploc.tmean = Div(Add(AsFArr(pargs.tmax), AsFArr(pargs.tmin)),
                                 K(2, 1))
        ELSE /\ pout # Raised("ValueError", "tmean")
             /\ ploc.tmean = AsFArr(pargs.tmean)
             /\ ploc.es # Unset =>
                   ploc.es = saturation_vapor_pressure(AsFArr(pargs.tmean))
             /\ ploc.delta # Unset =>
                   ploc.delta =
                       slope_saturation_vapour_pressure_curve(AsFArr(pargs.tmean))

\* C13: the result depends on the net radiation only through the argument
\* rn: two calls that differ only in latitude and doy end alike, with the
\* same outcome and the same ETo.  Every call ends as the call does that has
\* the equator for latitude and the first of January for doy, and its other
\* arguments unchanged.
C13_RnNotRecomputed ==
    (ppc = "done" /\ pout.status # "TypeError")
        => PmCallResult([pargs EXCEPT !.latitude = PyFloat(Num(0)),
                                      !.doy = PyInt(2)])
               = [status |-> pout.status, eto |-> ploc.eto]

\* a call with a day-of-year array of full length returned an ETo
C13_Witness ==
    /\ ppc = "done"
    /\ pout.status = "ok"
    /\ ploc.eto # Unset
    /\ pargs.doy.kind = "ndarray" /\ Size(pargs.doy) = MaxLen
    /\ pargs.latitude = PyFloat(Num(-40))

\* the array inputs the size rule is about
PmSizedInputs == {"tmax", "tmin", "tmean", "rn", "rhmean", "u2", "doy"}

\* two of them are arrays of different lengths
PmSizesDiffer ==
    \E a, b \in PmSizedInputs :
        /\ IsSized(pargs[a]) /\ IsSized(pargs[b])
        /\ Size(pargs[a]) # Size(pargs[b])

\* C14: a call in which two of the array inputs tmax, tmin, tmean, rn,
\* rhmean, u2, doy differ in length fails with an error before any formula
\* is computed, instead of returning a result.
C14_PmSizeMismatchRaises ==
    (pout.status # "TypeError" /\ ppc # "bind" /\ PmSizesDiffer)
        => /\ ppc = "done" => pout.status = "ValueError"
           /\ \A name \in DOMAIN ploc : ploc[name] = Unset

(***************************************************************************)
(* Hamon                                                                   *)
(***************************************************************************)
IsNumeric(p) ==
    \/ p.kind \in {"int", "float"}
    \/ p.kind = "ndarray" /\ p.dtype \in {"float64", "int64"}

\* numeric temp_c, lat_deg and doy, d_hours numeric or left out; temp_c,
\* doy and a supplied d_hours hold the same number of values, lat_deg one
\* value or as many
HmValidCall ==
    /\ IsNumeric(hmargs.temp_c) /\ IsNumeric(hmargs.lat_deg)
    /\ IsNumeric(hmargs.doy)
    /\ Size(hmargs.doy) = Size(hmargs.temp_c)
    /\ Size(hmargs.lat_deg) \in {1, Size(hmargs.temp_c)}
    /\ \/ hmargs.d_hours = NoneObj
       \/ IsNumeric(hmargs.d_hours)
          /\ Size(hmargs.d_hours) = Size(hmargs.temp_c)

HmCalled == hmout.status \notin {"notrun", "idle"}

\* element i of a, a single element standing for all
At(a, i) == IF Len(a.elems) = 1 THEN a.elems[1] ELSE a.elems[i]

\* C15: hamon.calculate returns, element by element, 0 where the mean
\* temperature is below 0 and 0.165 (daylight_hours/12) 216.7
\* (svp/(tmean+273.3)) where it is 0 or above.
C15_HamonReturnsPet ==
    (HmCalled /\ HmValidCall)
        => /\ hmout.status = "ok"
           /\ Len(hmloc.pet.elems) = Size(hmargs.temp_c)
           /\ \A i \in 1..Size(hmargs.temp_c) :
                 LET T == hmargs.temp_c.elems[i]
                 IN  hmloc.pet.elems[i] =
                       IF T.h < 0 THEN 0
                       ELSE FMul(FMul(FMul(Lit(165, 1000),
                                           FDiv(At(hmloc.d_hours, i), Lit(12, 1))),
                                      Lit(2167, 10)),
                                 FDiv(At(hmloc.svp, i),
                                      FAdd(ToField(T), Lit(2733, 10))))

\* C16: a call that leaves d_hours out succeeds and uses (24/pi) times the
\* sunset hour angle of the latitude in radians and the solar declination
\* of doy; a call that supplies d_hours uses the supplied value.
C16_DaylightHoursOptional ==
    (HmCalled /\ HmValidCall)
        => /\ hmout.status = "ok"
           /\ hmloc.d_hours =
                 IF hmargs.d_hours = NoneObj
                 THEN Mul(Div(K(24, 1), Pi),
                          mv_sunset_hour_angle(
                              Deg2Rad(AsFArr(hmargs.lat_deg)),
                              mv_solar_declination(AsFArr(hmargs.doy))))
                 ELSE AsFArr(hmargs.d_hours)

SoilCalled(fn) == sfn = fn /\ sout.status # "notrun"

\* C18: for time_interval 'daily' and for 'dekadal' soil_heat_flux returns
\* 0, whatever temp_iminus1, temp_i and temp_iplus1 are, None included.
C18_DailyDekadalZero ==
    (SoilCalled("soil_heat_flux")
     /\ sargs.time_interval \in {"daily", "dekadal"})
        => /\ sout.status = "value"
           /\ sout.val.elems = <<0>>

\* a dekadal call without any temperature returned
C18_Witness ==
    /\ SoilCalled("soil_heat_flux")
    /\ sargs.time_interval = "dekadal"
    /\ sargs.temp_iminus1 = NoneObj /\ sargs.temp_i = NoneObj
    /\ sargs.temp_iplus1 = NoneObj
    /\ sout.status = "value"

\* x and y go together element by element
Conform(x, y) == Size(x) = Size(y) \/ Size(x) = 1 \/ Size(y) = 1

\* the value is k (x[i] - y[i]) at every place i
IsScaledDifference(val, k, x, y) ==
    /\ Len(val.elems) = Max2(Size(x), Size(y))
    /\ \A i \in 1..Len(val.elems) :
          val.elems[i] =
              FMul(k, FSub(ToField(At(x, i)), ToField(At(y, i))))

\* C19: for 'monthly', soil_heat_flux returns 0.14 (temp_i - temp_iminus1)
\* when temp_iplus1 is None and 0.07 (temp_iplus1 - temp_iminus1) otherwise,
\* the latter whatever temp_i is.
C19_MonthlyFormulas ==
    (SoilCalled("soil_heat_flux") /\ sargs.time_interval = "monthly"
     /\ sargs.temp_iminus1 # NoneObj)
        => IF sargs.temp_iplus1 = NoneObj
           THEN (sargs.temp_i # NoneObj
                 /\ Conform(sargs.temp_i, sargs.temp_iminus1))
                => /\ sout.status = "value"
                   /\ IsScaledDifference(sout.val, Lit(14, 100),
                                         sargs.temp_i, sargs.temp_iminus1)
           ELSE Conform(sargs.temp_iplus1, sargs.temp_iminus1)
                => /\ sout.status = "value"
                   /\ IsScaledDifference(sout.val, Lit(7, 100),
                                         sargs.temp_iplus1, sargs.temp_iminus1)

\* a monthly call with a next-period temperature and no temp_i returned
C19_Witness ==
    /\ SoilCalled("soil_heat_flux")
    /\ sargs.time_interval = "monthly"
    /\ sargs.temp_i = NoneObj
    /\ Size(sargs.temp_iplus1) = MaxLen /\ Size(sargs.temp_iminus1) = MaxLen
    /\ sout.status = "value"

C21_MonthlyNeedsPrevious ==
    (SoilCalled("soil_heat_flux") /\ sargs.time_interval = "monthly"
     /\ sargs.temp_iminus1 = NoneObj)
        => sout.status \in {"TypeError", "ValueError"}

\* a monthly call with the next-period temperature but no previous one
\* raised
C21_Witness ==
    /\ SoilCalled("soil_heat_flux")
    /\ sargs.time_interval = "monthly"
    /\ sargs.temp_iminus1 = NoneObj
    /\ sargs.temp_iplus1 # NoneObj /\ sargs.temp_i # NoneObj
    /\ sout.status = "TypeError"

\* C28: soil_heat_flux_for_hourly_or_short_periods returns 0.1 Rn for
\* 'daylight' and 0.5 Rn for 'nighttime', for every Rn, negative values
\* included.
C28_ShortPeriodFactors ==
    (SoilCalled("soil_heat_flux_for_hourly_or_short_periods")
     /\ sargs.period \in {"daylight", "nighttime"})
        => /\ sout.status = "value"
           /\ Len(sout.val.elems) = Size(sargs.rn)
           /\ \A i \in 1..Size(sargs.rn) :
                 sout.val.elems[i] =
                     FMul(IF sargs.period = "daylight" THEN Lit(1, 10)
                          ELSE Lit(5, 10),
                          ToField(sargs.rn.elems[i]))

\* a nighttime call with a negative net radiation array of full length
\* returned
C28_Witness ==
    /\ SoilCalled("soil_heat_flux_for_hourly_or_short_periods")
    /\ sargs.period = "nighttime"
    /\ Size(sargs.rn) = MaxLen
    /\ sargs.rn.elems[1].h < 0
    /\ sout.status = "value"


(***************************************************************************)
(* C22: in net_longwave_radiation the ratio Rs/Rso that enters the         *)
(* cloudiness factor never exceeds 1: where Rs/Rso > 1 the result is the   *)
(* result of the same call with Rs = Rso, and where Rs/Rso <= 1 the result *)
(* is the formula with the ratio as it is.                                 *)
(***************************************************************************)
RadCalled(fn) == sfn = fn /\ sout # NotRun

\* Rs/Rso > 1 for rs = a/2 and rso = b/2 (a positive number over zero is inf)
RatioAboveOne(a, b) ==
    \/ b.h > 0 /\ a.h > b.h
    \/ b.h < 0 /\ a.h < b.h
    \/ b.h = 0 /\ a.h > 0

\* Rs/Rso <= 1 of two numbers with a quotient
RatioWithinOne(a, b) ==
    \/ b.h > 0 /\ a.h <= b.h
    \/ b.h < 0 /\ a.h >= b.h

\* the formula of Rnl for the ratio r
RnlOfRatio(tmax, tmin, ea, r) ==
    FMul(FMul(FMul(FMul(FMul(Lit(4903, 1000000), Lit(1, 1000000)), Lit(5, 10)),
                   FAdd(FMul(FMul(FAdd(tmax, Lit(27316, 100)),
                                  FAdd(tmax, Lit(27316, 100))),
                             FMul(FAdd(tmax, Lit(27316, 100)),
                                  FAdd(tmax, Lit(27316, 100)))),
                        FMul(FMul(FAdd(tmin, Lit(27316, 100)),
                                  FAdd(tmin, Lit(27316, 100))),
                             FMul(FAdd(tmin, Lit(27316, 100)),
                                  FAdd(tmin, Lit(27316, 100)))))),
              FSub(Lit(34, 100), FMul(Lit(14, 100), FSqrt(ea)))),
         FSub(FMul(Lit(135, 100), r), Lit(35, 100)))

C22_RatioClamped ==
    (RadCalled("net_longwave_radiation") /\ sout.status = "value")
        => \A i \in 1..Len(sout.val.elems) :
              LET a == At(sargs.rs, i)
                  b == At(sargs.rso, i)
              IN  /\ RatioAboveOne(a, b)
                        => sout.val.elems[i] =
                               net_longwave_radiation(
                                   sargs.tmax, sargs.tmin, sargs.rso,
                                   sargs.rso, sargs.ea).val.elems[i]
                  /\ RatioWithinOne(a, b)
                        => sout.val.elems[i] =
                               RnlOfRatio(ToField(At(sargs.tmax, i)),
                                          ToField(At(sargs.tmin, i)),
                                          ToField(At(sargs.ea, i)),
                                          FDiv(ToField(a), ToField(b)))

C22_Witness ==
    /\ RadCalled("net_longwave_radiation")
    /\ sout.status = "value"
    /\ Len(sout.val.elems) = MaxLen
    /\ \E i, j \in 1..MaxLen :
          /\ RatioAboveOne(At(sargs.rs, i), At(sargs.rso, i))
          /\ At(sargs.rso, i).h > 0
          /\ RatioWithinOne(At(sargs.rs, j), At(sargs.rso, j))
          /\ At(sargs.rs, j).h > 0

(***************************************************************************)
(* C26: for inputs within the constraints of the data model (Rs >= 0,      *)
(* Rso > 0, ea >= 0, tmax >= tmin, albedo in [0, 1]) net_shortwave_radiation *)
(* returns Rns >= 0 and net_longwave_radiation returns Rnl >= 0.           *)
(***************************************************************************)
NonNegative(sign) == sign \in {"zero", "pos"}

\* the constraints on the i-th values of a call of net_longwave_radiation
LwWithinConstraints(i) ==
    /\ At(sargs.rs, i).h >= 0
    /\ At(sargs.rso, i).h > 0
    /\ At(sargs.ea, i).h >= 0
    /\ At(sargs.tmax, i).h >= At(sargs.tmin, i).h

\* the constraints on the i-th values of a call of net_shortwave_radiation;
\* the default albedo 0.23 is within them
SwWithinConstraints(i) ==
    /\ At(sargs.rs, i).h >= 0
    /\ sargs.alpha # NoneObj
          => (sargs.alpha.elems[1].h >= 0 /\ sargs.alpha.elems[1].h <= 2)

\* Rs/Rso >= 0.3 and ea <= 5.5 kPa, for Rso > 0
LwWithinRange(i) ==
    /\ 10 * At(sargs.rs, i).h >= 3 * At(sargs.rso, i).h
    /\ At(sargs.ea, i).h <= 11

RnsNonNegative ==
    (RadCalled("net_shortwave_radiation") /\ sout.status = "value")
        => \A i \in 1..Len(sout.sign) :
              SwWithinConstraints(i) => NonNegative(sout.sign[i])

\* the claim as stated
C26_NetRadiationNonNegative ==
    /\ RnsNonNegative
    /\ (RadCalled("net_longwave_radiation") /\ sout.status = "value")
          => \A i \in 1..Len(sout.sign) :
                LwWithinConstraints(i) => NonNegative(sout.sign[i])

\* C26, amended: Rns >= 0 within the constraints; Rnl >= 0 within the
\* constraints when also Rs/Rso >= 0.3 and ea <= 5.5 kPa, and Rnl < 0 for
\* Rs = 0 and such an ea
C26_NonNegativeWithinRange ==
    /\ RnsNonNegative
    /\ (RadCalled("net_longwave_radiation") /\ sout.status = "value")
          => \A i \in 1..Len(sout.sign) :
                LwWithinConstraints(i)
                    => /\ LwWithinRange(i) => NonNegative(sout.sign[i])
                       /\ (At(sargs.rs, i).h = 0 /\ At(sargs.ea, i).h <= 11)
                             => sout.sign[i] = "neg"

C26_Witness ==
    /\ RadCalled("net_longwave_radiation")
    /\ sout.status = "value"
    /\ Len(sout.sign) = MaxLen
    /\ \A i \in 1..MaxLen : LwWithinConstraints(i)
    /\ \E i, j \in 1..MaxLen :
          /\ LwWithinRange(i)
          /\ At(sargs.rs, i).h < At(sargs.rso, i).h
          /\ At(sargs.ea, i).h > 0
          /\ sout.sign[i] = "pos"
          /\ At(sargs.rs, j).h = 0
          /\ sout.sign[j] = "neg"

(***************************************************************************)
(* C23: for a latitude and a declination with |tan(lat) tan(dec)| < 1 the  *)
(* arccos formulation of sunset_hour_angle and the clamped arctan          *)
(* formulation return the same angle.                                      *)
(***************************************************************************)
AstroCalled(fn) == sfn = fn /\ sout # NotRun

TanProductBelowOne(i) ==
    TanProduct(At(sargs.latitude, i), At(sargs.solar_dec, i)).sq < Million

C23_FormulationsAgree ==
    /\ (AstroCalled("alternatives_equations.sunset_hour_angle")
        /\ Len(sargs.latitude.elems) = 1 /\ TanProductBelowOne(1))
          => /\ sout.status = "value"
             /\ sout.val = SunsetHourAngleArccos(sargs.latitude,
                                                 sargs.solar_dec).val
    /\ (AstroCalled("astronomical_variables.sunset_hour_angle")
        /\ Len(sargs.latitude.elems) = 1 /\ TanProductBelowOne(1))
          => /\ sout.status = "value"
             /\ sout.val = SunsetHourAngleClamped(sargs.latitude,
                                                  sargs.solar_dec).val

\* the two agree where x is below the floor and is not raised to it
C23_Witness ==
    /\ AstroCalled("alternatives_equations.sunset_hour_angle")
    /\ TanProductBelowOne(1)
    /\ sout.status = "value"
    /\ sout.x[1] < SqrtFloor
    /\ sout.val.elems[1].sgn = -1
    /\ ~sout.val.elems[1].nan

(***************************************************************************)
(* C27: in the clamped sunset_hour_angle the value passed to the square    *)
(* root is at least 1e-5, for every latitude and declination.              *)
(***************************************************************************)
C27_SqrtArgumentAtLeastFloor ==
    (AstroCalled("alternatives_equations.sunset_hour_angle")
     /\ sout.status = "value")
        => \A i \in 1..Len(sout.x) : sout.x[i] >= SqrtFloor

(***************************************************************************)
(* C24: every astronomical function, the clamped sunset_hour_angle         *)
(* included, called with arrays of one length n > 1 returns an array of    *)
(* length n whose i-th element is the function of the i-th input elements. *)
(***************************************************************************)
\* the call of the astronomical function fn with the i-th elements alone
AstroOfElements(fn, args, i) ==
    CASE fn = "astronomical_variables.sunset_hour_angle" ->
             SunsetHourAngleArccos(Scalar(args.latitude.elems[i]),
                                   Scalar(args.solar_dec.elems[i])).val
      [] fn = "alternatives_equations.sunset_hour_angle" ->
             SunsetHourAngleClamped(Scalar(args.latitude.elems[i]),
                                    Scalar(args.solar_dec.elems[i])).val
      [] OTHER -> AstroOfOne(fn, Scalar(ToField(args.a.elems[i])))

AstroArgLen ==
    IF sfn \in {"astronomical_variables.sunset_hour_angle",
                "alternatives_equations.sunset_hour_angle"}
    THEN Len(sargs.latitude.elems)
    ELSE Len(sargs.a.elems)

C24_ElementwiseOverArrays ==
    (sout # NotRun /\ AstroArgLen > 1)
        => /\ sout.status = "value"
           /\ Len(sout.val.elems) = AstroArgLen
           /\ \A i \in 1..AstroArgLen :
                 sout.val.elems[i] = AstroOfElements(sfn, sargs, i).elems[1]

(***************************************************************************)
(* C29: whether methods/hargreaves.calculate accepts a call depends only   *)
(* on the types and sizes of its inputs, never on their values: physically *)
(* invalid values are never rejected by validation.                        *)
(***************************************************************************)
\* the type of p is one the normalisation takes: kind and dtype alone
TypeTaken(p) ==
    \/ IsInstanceIntFloat(p)
    \/ p.kind \in {"ndarray", "Series"} /\ DtypeInFloatInt(p)

\* what the types and sizes of the inputs say: every type is taken, the
\* latitude holds one value or as many as the longest input, and tmin, tmax,
\* tmean and doy all hold as many as the longest of latitude, tmin, tmax, doy
HgTypesAndSizesFit ==
    /\ TypeTaken(hargs.latitude)
    /\ \A i \in 1..4 : TypeTaken(HgNonLatitude[i])
    /\ LET max_size == MaxOf(<<Size(hargs.latitude), Size(hargs.tmin),
                               Size(hargs.tmax), Size(hargs.doy)>>)
       IN  /\ Size(hargs.latitude) \in {1, max_size}
           /\ \A i \in 1..4 : Size(HgNonLatitude[i]) = max_size

\* lines 47-56 are over
HgValidated == hpc \notin {"idle", "types", "sizes"}
HgRejected ==
    hout.status = "ValueError" /\ hout.at \in {"type", "latitude", "size"}

\* int(nan) and Series.astype(int) of a NaN raise
HgDoyNaNRaises ==
    hargs.doy.kind \in {"float", "np.float64", "Series"}
    /\ HasNaN(hargs.doy.elems)

\* the claim as stated
C29_ValidationIgnoresValues ==
    HgValidated => (~HgRejected <=> HgTypesAndSizesFit)

\* C29, amended: acceptance depends only on the types and sizes of the
\* inputs, except that a doy that is a NaN float or a Series holding a NaN
\* is rejected
C29_ValidationIgnoresFiniteValues ==
    HgValidated => (~HgRejected <=> (HgTypesAndSizesFit /\ ~HgDoyNaNRaises))

C29_Witness ==
    /\ HgValidated
    /\ ~HgRejected
    /\ Size(hargs.tmin) = MaxLen
    /\ Size(hargs.latitude) = MaxLen
    /\ \A i \in 1..MaxLen :
          /\ hargs.tmax.elems[i].h < hargs.tmin.elems[i].h
          /\ hargs.latitude.elems[i].h > 180
          /\ hargs.doy.elems[i].h > 732

=============================================================================
